---- MODULE Spec2Model ----
(***************************************************************************)
(* Promptsmith chart optimizer: the optimization loop of                   *)
(* PromptsmithOrchestrator.run_optimization (main.py), the agents it       *)
(* drives (agents/*.py) and the learning cache (learning_cache.py).        *)
(*                                                                         *)
(* Conventions.                                                            *)
(*  - Scores are integers in hundredths of a point (9.5 is 950).           *)
(*  - A text (query, prompt) is a sequence of tokens; <<>> is the empty    *)
(*    string.  "term in text" (Python substring test) is token membership. *)
(*  - A Python Optional / absent value is a sequence of length 0 or 1.     *)
(*  - A chart specification is a record of the facts the evaluators read.  *)
(***************************************************************************)
EXTENDS Integers, Sequences, FiniteSets, TLC

(***************************************************************************)
(* Bounds of the model.                                                    *)
(***************************************************************************)
MaxIterArg == 3          \* max_iterations argument ranges over 0..MaxIterArg
MaxRuns == 1             \* run_optimization calls per behaviour
MaxPolicyIter == 6       \* iteration argument of the policy functions

(***************************************************************************)
(* Program constants.                                                      *)
(***************************************************************************)
heuristic_weight == 40        \* 0.4, in percent
llm_weight == 60              \* 0.6, in percent
continue_threshold == 950     \* 9.5
scorer_max_iterations == 5    \* ScoringAgent.max_iterations
learn_threshold == 800        \* 8.0: query/prompt/chart patterns are learned
solution_threshold == 700     \* 7.0: a solution is stored for an issue
max_solutions == 20           \* solutions kept per issue
base_score == 700             \* 7.0: base of the simulated LLM evaluation
good_score == 800             \* 8.0: rewriter "good score" stop / cache use
floor_score == 300            \* 3.0: rewriter "score too low" stop

(***************************************************************************)
(* Texts.                                                                  *)
(***************************************************************************)
QueryEmpty == <<>>
QueryData == <<"data">>
QueryRevenue == <<"show", "me", "revenue", "by", "region", "over", "time">>
Queries == {QueryEmpty, QueryData, QueryRevenue}

\* a run of whitespace is the token " "; "Data" and "data " are "data"
\* in another case and with a trailing blank
Blank == " "
QueryDataUpper == <<"Data">>
QueryDataBlank == <<"data", Blank>>

\* str.lower() of one token
LowerTok(t) ==
    CASE t = "Data" -> "data"
      [] t = "DATA" -> "data"
      [] OTHER -> t

\* str.lower()
Lower(q) == [i \in 1..Len(q) |-> LowerTok(q[i])]

\* str.strip()
RECURSIVE Strip(_)
Strip(q) ==
    IF q = <<>> THEN q
    ELSE IF q[1] = Blank THEN Strip(Tail(q))
    ELSE IF q[Len(q)] = Blank THEN Strip(SubSeq(q, 1, Len(q) - 1))
    ELSE q

\* "term in text" for a one-word term
Contains(q, term) == \E i \in 1..Len(q) : q[i] = term

\* "a b in text" for a two-word term
ContainsPair(q, a, b) == \E i \in 1..(Len(q) - 1) : q[i] = a /\ q[i + 1] = b

ContainsAny(q, terms) == \E t \in terms : Contains(q, t)

\* chat_completion: the provider answers with a text, or the call yields
\* "[MOCK LLM RESPONSE]" / "[LLM ERROR: ...]" (no client, or the API raised)
MOCK == <<"[MOCK LLM RESPONSE]">>
LLM_ERROR == <<"[LLM ERROR">>
IsMockOrError(resp) == resp = MOCK \/ resp = LLM_ERROR

\* texts a provider may answer with, after .strip(): empty, or some text
ProviderTexts == {<<>>, <<"P">>}
TextResponses == {MOCK, LLM_ERROR} \cup ProviderTexts

(***************************************************************************)
(* Chart specifications.                                                   *)
(***************************************************************************)
\* {} : state.get("chart_spec", {})
EmptyChart ==
    [schema |-> FALSE, data |-> FALSE, npoints |-> 0, mark |-> "absent",
     markDict |-> FALSE, encoding |-> FALSE, x |-> FALSE, y |-> FALSE,
     xTitle |-> FALSE, yTitle |-> FALSE, xAxis |-> FALSE, yAxis |-> FALSE,
     title |-> FALSE, width |-> "absent", height |-> "absent",
     autosize |-> FALSE, color |-> FALSE]

\* keyword -> mark type of the template chart
TemplateChartType(query_lower) ==
    IF ContainsAny(query_lower, {"bar", "column"}) THEN "bar"
    ELSE IF ContainsAny(query_lower, {"line", "trend"})
            \/ ContainsPair(query_lower, "over", "time")
            \/ ContainsPair(query_lower, "time", "series") THEN "line"
    ELSE IF ContainsAny(query_lower, {"scatter", "point", "correlation"}) THEN "point"
    ELSE IF ContainsAny(query_lower, {"pie", "donut"}) THEN "arc"
    ELSE IF ContainsAny(query_lower, {"area", "stacked"}) THEN "area"
    ELSE "bar"

\* first dimension keyword found in the query, "region" by default
DetectedDimension(query) ==
    LET dims == <<"region", "department", "product", "month", "quarter",
                  "year", "category", "team">>
        hits == {i \in 1..Len(dims) : Contains(query, dims[i])}
    IN IF hits = {} THEN "region"
       ELSE dims[CHOOSE i \in hits : \A j \in hits : i <= j]

\* number of data rows of the template chart
TemplatePoints(query) ==
    LET d == DetectedDimension(query)
    IN IF d = "month" \/ Contains(query, "time") \/ Contains(query, "trend") THEN 6
       ELSE IF d = "department" THEN 6
       ELSE 5

\* the template chart of a prompt and a query
GenerateDynamicChartSpec(prompt, user_query) ==
    LET query_lower == Lower(IF user_query # <<>> THEN user_query ELSE prompt)
    IN [schema |-> TRUE, data |-> TRUE, npoints |-> TemplatePoints(query_lower),
        mark |-> TemplateChartType(query_lower), markDict |-> FALSE,
        encoding |-> TRUE, x |-> TRUE, y |-> TRUE,
        xTitle |-> TRUE, yTitle |-> TRUE, xAxis |-> FALSE, yAxis |-> FALSE,
        title |-> TRUE, width |-> "number", height |-> "number",
        autosize |-> FALSE, color |-> FALSE]

\* an axis title is dropped from encoding[axis] when the axis also has an
\* "axis" dictionary (it is moved into axis.title)
EnhancedAxisTitle(present, hasTitle, hasAxis) ==
    IF present /\ hasTitle /\ hasAxis THEN FALSE ELSE hasTitle

EnhanceChartSpec(c) ==
    [c EXCEPT !.schema = TRUE,
              !.autosize = TRUE,
              !.width = "container",
              !.height = "container",
              !.color = TRUE,
              !.encoding = TRUE,
              !.markDict = IF c.mark = "absent" THEN FALSE
                           ELSE c.markDict \/ c.mark = "bar",
              !.xTitle = EnhancedAxisTitle(c.x, c.xTitle, c.xAxis),
              !.yTitle = EnhancedAxisTitle(c.y, c.yTitle, c.yAxis)]

ValidateChartSpec(c) == c.schema /\ c.data /\ c.mark # "absent" /\ c.encoding

\* JSON objects the generation provider may answer with
ProviderChartPoor ==
    [EmptyChart EXCEPT !.data = TRUE, !.npoints = 2, !.mark = "pie"]
ProviderChartNoData ==
    [EmptyChart EXCEPT !.schema = TRUE, !.mark = "bar", !.encoding = TRUE,
                       !.x = TRUE, !.y = TRUE, !.title = TRUE]
ProviderCharts == {ProviderChartPoor, ProviderChartNoData}

\* a generation answer: unparseable text (the mock and error markers
\* included), or a JSON object
ChartResponses == {<<>>} \cup {<<c>> : c \in ProviderCharts}

(***************************************************************************)
(* HeuristicEvaluatorAgent (agents/evaluator_heuristic.py).                *)
(* A criterion result is [score, issues]; criterion scores are in halves   *)
(* (0, 1, 2 for 0.0, 0.5, 1.0).                                            *)
(***************************************************************************)
valid_marks ==
    {"bar", "line", "point", "area", "circle", "square", "tick", "rect", "rule",
     "arc", "text", "geoshape", "trail", "boxplot", "errorband", "errorbar"}

\* f"invalid_chart_type: {mark_type}"
InvalidChartTypeIssue(mark) ==
    CASE mark = "pie" -> "invalid_chart_type: pie"
      [] mark = "absent" -> "invalid_chart_type: "
      [] OTHER -> "invalid_chart_type: other"

IsValidChartSpec(c) == c.schema /\ c.data /\ c.mark # "absent" /\ c.encoding

EvaluateTitle(c) ==
    IF c.title THEN [score |-> 2, issues |-> {}]
    ELSE [score |-> 0, issues |-> {"missing_title"}]

EvaluateAxisLabels(c) ==
    LET x_has_title == c.x /\ c.xTitle
        y_has_title == c.y /\ c.yTitle
    IN IF x_has_title /\ y_has_title THEN [score |-> 2, issues |-> {}]
       ELSE IF x_has_title \/ y_has_title
            THEN [score |-> 1, issues |-> {"partial_axis_labels"}]
       ELSE [score |-> 0, issues |-> {"missing_axis_labels"}]

EvaluateChartType(c) ==
    IF c.mark \in valid_marks THEN [score |-> 2, issues |-> {}]
    ELSE [score |-> 0, issues |-> {InvalidChartTypeIssue(c.mark)}]

EvaluateData(c) ==
    IF c.data /\ c.npoints > 0 THEN [score |-> 2, issues |-> {}]
    ELSE [score |-> 0, issues |-> {"missing_data"}]

EvaluateEncoding(c) ==
    IF ~(c.encoding /\ (c.x \/ c.y \/ c.color))
    THEN [score |-> 0, issues |-> {"missing_encoding"}]
    ELSE IF c.x /\ c.y THEN [score |-> 2, issues |-> {}]
    ELSE IF c.x \/ c.y THEN [score |-> 1, issues |-> {"partial_encoding"}]
    ELSE [score |-> 0, issues |-> {"missing_encoding"}]

EvaluateStyling(c) ==
    LET has_width == c.width # "absent"
        has_height == c.height # "absent"
    IN IF has_width /\ has_height THEN [score |-> 2, issues |-> {}]
       ELSE IF has_width \/ has_height
            THEN [score |-> 1, issues |-> {"partial_styling"}]
       ELSE [score |-> 0, issues |-> {"missing_styling"}]

EvaluateResponsiveDesign(c) ==
    IF c.autosize THEN [score |-> 2, issues |-> {}]
    ELSE IF ~(c.width = "number" /\ c.height = "number")
         THEN [score |-> 2, issues |-> {}]
    ELSE IF c.width = "container" \/ c.height = "container"
         THEN [score |-> 2, issues |-> {}]
    ELSE [score |-> 0, issues |-> {"not_responsive"}]

\* self.criteria, in dictionary order: weight in percent, required
criteria ==
    << [name |-> "has_title", weight |-> 10, required |-> TRUE],
       [name |-> "has_axis_labels", weight |-> 15, required |-> TRUE],
       [name |-> "appropriate_chart_type", weight |-> 20, required |-> TRUE],
       [name |-> "has_data", weight |-> 15, required |-> TRUE],
       [name |-> "proper_encoding", weight |-> 20, required |-> TRUE],
       [name |-> "good_styling", weight |-> 10, required |-> FALSE],
       [name |-> "responsive_design", weight |-> 10, required |-> FALSE] >>

EvaluateCriterion(name, c) ==
    CASE name = "has_title" -> EvaluateTitle(c)
      [] name = "has_axis_labels" -> EvaluateAxisLabels(c)
      [] name = "appropriate_chart_type" -> EvaluateChartType(c)
      [] name = "has_data" -> EvaluateData(c)
      [] name = "proper_encoding" -> EvaluateEncoding(c)
      [] name = "good_styling" -> EvaluateStyling(c)
      [] name = "responsive_design" -> EvaluateResponsiveDesign(c)
      [] OTHER -> [score |-> 0, issues |-> {"unknown_criterion"}]

RECURSIVE SumWeighted(_, _)
\* sum over criteria 1..n of criterion score (halves) * weight (percent)
SumWeighted(c, n) ==
    IF n = 0 THEN 0
    ELSE SumWeighted(c, n - 1)
         + EvaluateCriterion(criteria[n].name, c).score * criteria[n].weight

Min(a, b) == IF a <= b THEN a ELSE b
Max(a, b) == IF a >= b THEN a ELSE b

\* evaluate_chart: has_raw tells whether the result dictionary carries the
\* keys "raw_score" and "max_possible_score" (only the normal return does)
HeuristicEvaluateChart(c) ==
    LET n == Len(criteria)
        fatal == {i \in 1..n :
                     /\ EvaluateCriterion(criteria[i].name, c).score = 0
                     /\ criteria[i].required
                     /\ "invalid_input" \in EvaluateCriterion(criteria[i].name, c).issues}
    IN IF ~IsValidChartSpec(c)
       THEN [score |-> 0, issues |-> {"invalid_chart_spec"},
             chart_valid |-> FALSE, has_raw |-> FALSE]
       ELSE IF fatal # {}
       THEN [score |-> 0,
             issues |-> EvaluateCriterion(
                           criteria[CHOOSE i \in fatal : \A j \in fatal : i <= j].name,
                           c).issues,
             chart_valid |-> FALSE, has_raw |-> FALSE]
       ELSE [score |-> Min(5 * SumWeighted(c, n), 1000),
             issues |-> UNION {EvaluateCriterion(criteria[i].name, c).issues : i \in 1..n},
             chart_valid |-> TRUE, has_raw |-> TRUE]

(***************************************************************************)
(* LLMEvaluatorAgent (agents/evaluator_llm.py).                            *)
(***************************************************************************)
\* chart_spec.get("mark", ""): a dictionary mark equals no mark name
RawMark(c) == IF c.markDict THEN "{dict}" ELSE IF c.mark = "absent" THEN "" ELSE c.mark

EvaluateIntentAppropriateness(c, original_intent) ==
    LET mark == RawMark(c)
        intent_lower == Lower(original_intent)
    IN IF ContainsAny(intent_lower, {"time", "trend", "month", "year"})
       THEN (IF mark = "line" THEN 100 ELSE IF mark = "area" THEN 80 ELSE -50)
       ELSE IF ContainsAny(intent_lower, {"compare", "region", "category"})
       THEN (IF mark \in {"bar", "column"} THEN 100 ELSE 0)
       ELSE IF ContainsAny(intent_lower, {"distribution", "spread", "correlation"})
       THEN (IF mark \in {"point", "circle"} THEN 100 ELSE 0)
       ELSE 50

EvaluateClarity(c) ==
    LET x_has_title == c.x /\ c.xTitle
        y_has_title == c.y /\ c.yTitle
    IN (IF c.title THEN 50 ELSE 0)
       + (IF x_has_title /\ y_has_title THEN 50
          ELSE IF x_has_title \/ y_has_title THEN 25 ELSE 0)

EvaluateInsightPotential(c) ==
    IF c.npoints >= 5 THEN 50 ELSE IF c.npoints >= 3 THEN 30 ELSE 0

EvaluateAesthetics(c) ==
    (IF c.width # "absent" /\ c.height # "absent" THEN 50 ELSE 0)
    + (IF c.title THEN 30 ELSE 0)
    + (IF c.color THEN 20 ELSE 0)

\* every data row of a modelled chart is a dictionary with two fields, and
\* every modelled axis names a field
EvaluateDataAccuracy(c) ==
    (IF c.npoints > 0 THEN 50 + 30 ELSE 0)
    + (IF c.x /\ c.y THEN 20 ELSE 0)

SimulateLLMEvaluation(c, original_intent) ==
    LET score == base_score
                 + EvaluateIntentAppropriateness(c, original_intent)
                 + EvaluateClarity(c)
                 + EvaluateInsightPotential(c)
                 + EvaluateAesthetics(c)
                 + EvaluateDataAccuracy(c)
    IN Max(0, Min(1000, score))

\* scores the evaluation provider may answer with: 2.0, 8.5 and, outside
\* the range it is asked for, 15.0 and -10.0
ProviderScores == {200, 850, 1500, -1000}
\* an evaluation answer: unparseable (<<>>), or a JSON object with a score
ScoreResponses == {<<>>} \cup {<<s>> : s \in ProviderScores}

\* evaluate_chart: float(parsed["score"]) when the answer parses, the
\* simulated evaluation otherwise
LLMEvaluateChart(c, original_intent, resp) ==
    IF resp # <<>> THEN resp[1] ELSE SimulateLLMEvaluation(c, original_intent)

(***************************************************************************)
(* ScoringAgent (agents/scorer.py).                                        *)
(***************************************************************************)
\* round(n / d) for n >= 0, d > 0
RoundDiv(n, d) == (2 * n + d) \div (2 * d)

\* the weighted score cut to two decimals instead of rounded
CalculateFinalScoreTruncated(heuristic_score, llm_score) ==
    (heuristic_score * heuristic_weight + llm_score * llm_weight) \div 100

\* round(heuristic_score * 0.4 + llm_score * 0.6, 2)
CalculateFinalScore(heuristic_score, llm_score) ==
    RoundDiv(heuristic_score * heuristic_weight + llm_score * llm_weight, 100)

critical_issues == {"invalid_input", "invalid_chart_spec", "missing_data"}

IterationReached(iteration) == iteration >= scorer_max_iterations

\* the target test without the "at least one iteration has been output" part
TargetAchievedAtAnyIteration(final_score, iteration) ==
    final_score >= continue_threshold /\ iteration >= 1

\* the target test with a strict comparison
TargetAchievedAbove(final_score, iteration) ==
    final_score > continue_threshold /\ iteration > 1

TargetAchieved(final_score, iteration) ==
    final_score >= continue_threshold /\ iteration > 1

\* should_continue: (continue?, reason)
ShouldContinue(final_score, iteration, heuristic_issues) ==
    IF IterationReached(iteration)
    THEN [cont |-> FALSE, reason |-> "Maximum iterations reached"]
    ELSE IF TargetAchieved(final_score, iteration)
    THEN [cont |-> FALSE, reason |-> "Target score achieved"]
    ELSE IF heuristic_issues \cap critical_issues # {}
    THEN [cont |-> FALSE, reason |-> "Critical issues detected requiring clarification"]
    ELSE [cont |-> TRUE, reason |-> "Score below threshold, continuing iteration"]

DetermineStatus(final_score, iteration) ==
    IF final_score >= continue_threshold THEN "Optimal"
    ELSE IF iteration >= scorer_max_iterations THEN "Max iterations reached"
    ELSE IF final_score >= 700 THEN "Good quality"
    ELSE IF final_score >= 500 THEN "Needs refinement"
    ELSE "Poor quality"

(***************************************************************************)
(* ClarifierAgent (agents/clarifier.py).                                   *)
(***************************************************************************)
IsVagueBusinessQuery(query) ==
    /\ ContainsAny(query, {"business", "performance", "metrics", "data", "results"})
    /\ ~ContainsAny(query, {"revenue", "profit", "sales", "customers", "orders", "growth"})

IsMissingTimeframe(query) ==
    ~(ContainsAny(query, {"time", "trend", "period", "month", "year", "quarter", "week"})
      \/ ContainsPair(query, "over", "time"))

IsMissingDimensions(query) ==
    ~ContainsAny(query, {"by", "region", "product", "department", "category", "group"})

IsTooBroad(query) ==
    ContainsAny(query, {"everything", "all", "overview", "summary", "general"})

IsAmbiguousMetrics(query) ==
    /\ ContainsAny(query, {"performance", "results", "numbers", "figures", "statistics"})
    /\ ~ContainsAny(query, {"total", "average", "percentage", "count", "sum", "mean"})

\* analyze_query: the clarification type, "clear" when no question is asked
AnalyzeQuery(user_query) ==
    LET query_lower == Lower(user_query)
    IN IF IsVagueBusinessQuery(query_lower) THEN "vague_business"
       ELSE IF IsMissingTimeframe(query_lower) THEN "missing_timeframe"
       ELSE IF IsMissingDimensions(query_lower) THEN "missing_dimensions"
       ELSE IF IsTooBroad(query_lower) THEN "too_broad"
       ELSE IF IsAmbiguousMetrics(query_lower) THEN "ambiguous_metrics"
       ELSE "clear"

\* suggest_improved_query
SuggestImprovedQuery(original_query, clarification_type) ==
    CASE clarification_type = "vague_business" ->
            <<"Show me revenue trends over the last 12 months">>
      [] clarification_type = "missing_timeframe" ->
            original_query \o <<"over", "the", "last", "quarter">>
      [] clarification_type = "missing_dimensions" ->
            original_query \o <<"by", "region">>
      [] clarification_type = "too_broad" ->
            <<"Show me monthly revenue by product category">>
      [] clarification_type = "ambiguous_metrics" ->
            <<"Show", "me", "total">> \o original_query \o <<"by", "month">>
      [] OTHER -> original_query

\* ClarifierAgent.run: the keys it adds to the state; the question text is
\* named by its clarification type
ClarifierRun(user_query) ==
    LET t == AnalyzeQuery(user_query)
    IN IF t # "clear"
       THEN [clarification_needed |-> TRUE,
             clarification_question |-> <<t>>,
             suggested_query |-> SuggestImprovedQuery(user_query, t)]
       ELSE [clarification_needed |-> FALSE,
             clarification_question |-> <<>>,
             suggested_query |-> <<>>]

(***************************************************************************)
(* LearningCache (learning_cache.py).                                      *)
(* A pattern map is a function from its keys; patterns is the record of    *)
(* the five maps.                                                          *)
(***************************************************************************)
EmptyMap == <<>>

EmptyPatterns ==
    [query_patterns |-> EmptyMap, issue_patterns |-> EmptyMap,
     prompt_patterns |-> EmptyMap, chart_patterns |-> EmptyMap,
     feedback_patterns |-> EmptyMap]

\* m[k] = v
Put(m, k, v) == [x \in (DOMAIN m) \cup {k} |-> IF x = k THEN v ELSE m[x]]

\* hashlib.md5(text).hexdigest(): a digest of 128 bits, so that different
\* texts can have the same digest; the digest is named by a text that has
\* it, and QueryCollide is a text with the digest of "data"
QueryCollide == <<"collide">>
Md5(text) == IF text = QueryCollide THEN QueryData ELSE text

\* _hash_query: md5(query.lower().encode()).hexdigest()
HashQuery(query) == Md5(Lower(query))

\* pruning by recency: the newest twenty solutions, in the order recorded
InsertSolutionNewest(solutions, solution) ==
    SubSeq(solutions \o <<solution>>,
           Max(1, Len(solutions) + 2 - max_solutions), Len(solutions) + 1)

\* sorted(solutions + [solution], key=score, reverse=True)[:20]: the sort
\* is stable, so the new solution goes after the kept ones that score at
\* least as much
InsertSolution(solutions, solution) ==
    LET ahead == {i \in 1..Len(solutions) : solutions[i].score >= solution.score}
        k == Cardinality(ahead)
        all == SubSeq(solutions, 1, k) \o <<solution>>
               \o SubSeq(solutions, k + 1, Len(solutions))
    IN SubSeq(all, 1, Min(Len(all), max_solutions))

\* the issue pattern of one issue after a run
LearnIssue(issue_patterns, issue, run_data) ==
    LET old == IF issue \in DOMAIN issue_patterns THEN issue_patterns[issue]
               ELSE [count |-> 0, solutions |-> <<>>]
        solution == [prompt |-> run_data.prompt,
                     chart_spec |-> run_data.chart_spec,
                     score |-> run_data.final_score]
    IN [count |-> old.count + 1,
        solutions |-> IF run_data.final_score >= solution_threshold
                      THEN InsertSolution(old.solutions, solution)
                      ELSE old.solutions]

LearnsQueryFromSolutions(final_score) == final_score >= solution_threshold
LearnsQuery(final_score) == final_score >= learn_threshold

\* _learn_from_run
LearnFromRun(p, run_data) ==
    LET query_hash == HashQuery(run_data.user_query)
        learn == LearnsQuery(run_data.final_score)
        issues == run_data.heuristic_issues
    IN [query_patterns |->
            IF learn
            THEN Put(p.query_patterns, query_hash,
                     [query |-> run_data.user_query,
                      chart_type |-> run_data.chart_spec.mark,
                      effective_prompt |-> run_data.prompt,
                      score |-> run_data.final_score])
            ELSE p.query_patterns,
        issue_patterns |->
            [i \in (DOMAIN p.issue_patterns) \cup issues |->
                IF i \in issues THEN LearnIssue(p.issue_patterns, i, run_data)
                ELSE p.issue_patterns[i]],
        prompt_patterns |->
            IF learn THEN Put(p.prompt_patterns, query_hash, run_data.prompt)
            ELSE p.prompt_patterns,
        chart_patterns |->
            IF learn THEN Put(p.chart_patterns, query_hash, run_data.chart_spec)
            ELSE p.chart_patterns,
        feedback_patterns |-> p.feedback_patterns]

\* suggest_prompt: Optional[str]
SuggestPrompt(p, user_query) ==
    IF HashQuery(user_query) \in DOMAIN p.prompt_patterns
    THEN <<p.prompt_patterns[HashQuery(user_query)]>>
    ELSE <<>>

\* suggest_chart_spec: Optional[dict]
SuggestChartSpec(p, user_query) ==
    IF HashQuery(user_query) \in DOMAIN p.chart_patterns
    THEN <<p.chart_patterns[HashQuery(user_query)]>>
    ELSE <<>>

\* prompt[:100]: the first hundred characters lie in the first token
Head100(prompt) == IF prompt = <<>> THEN <<>> ELSE <<prompt[1]>>

\* max(solutions, key=score): the first of the highest-scoring solutions
BestSolution(solutions) ==
    solutions[CHOOSE i \in 1..Len(solutions) :
                 /\ \A j \in 1..Len(solutions) : solutions[j].score <= solutions[i].score
                 /\ \A j \in 1..(i - 1) : solutions[j].score < solutions[i].score]

\* suggest_improvements: one suggestion per issue that has a solution; a
\* suggestion is [issue, head], for the text
\* "Based on previous runs, {issue} was resolved with: {head}..."
SuggestImprovements(p, heuristic_issues, final_score) ==
    IF final_score >= good_score THEN {}
    ELSE {[issue |-> i,
           head |-> Head100(BestSolution(p.issue_patterns[i].solutions).prompt)] :
            i \in {j \in heuristic_issues \cap DOMAIN p.issue_patterns :
                      p.issue_patterns[j].solutions # <<>>}}

(***************************************************************************)
(* PromptGeneratorAgent (agents/prompt_generator.py).                      *)
(***************************************************************************)
TemplateHeader == "Create a Vega-Lite chart specification based on the following user request:"
TemplateFooter == "Return only the JSON specification without any additional text."

CreatePromptTemplate(user_query) ==
    <<TemplateHeader>> \o user_query \o <<TemplateFooter>>

\* generate_prompt: the cached prompt, else the provider's text, else the
\* template
GeneratePromptText(p, user_query, resp) ==
    LET cached_prompt == SuggestPrompt(p, user_query)
    IN IF cached_prompt # <<>> /\ cached_prompt[1] # <<>> THEN cached_prompt[1]
       ELSE IF IsMockOrError(resp) THEN CreatePromptTemplate(user_query)
       ELSE resp

(***************************************************************************)
(* ChartBuilderAgent.build_chart (agents/chart_builder.py).                *)
(***************************************************************************)
\* the cache-first path is taken: a cached chart, a query pattern under the
\* same hash, and its query equal to the input with case folded
ChartCacheHit(p, user_query) ==
    /\ user_query # <<>>
    /\ SuggestChartSpec(p, user_query) # <<>>
    /\ SuggestChartSpec(p, user_query)[1] # EmptyChart
    /\ HashQuery(user_query) \in DOMAIN p.query_patterns
    /\ Strip(Lower(user_query))
         = Strip(Lower(p.query_patterns[HashQuery(user_query)].query))

BuildChartSpec(p, prompt, user_query, resp) ==
    IF ChartCacheHit(p, user_query)
    THEN EnhanceChartSpec(SuggestChartSpec(p, user_query)[1])
    ELSE IF resp = <<>> THEN GenerateDynamicChartSpec(prompt, user_query)
    ELSE EnhanceChartSpec(resp[1])

(***************************************************************************)
(* PromptRewriterAgent (agents/rewriter.py).                               *)
(***************************************************************************)
\* word in token.lower(), for the words the rewriter looks for
Mentions(tok, word) ==
    CASE word = "specific" -> tok = TemplateHeader
      [] word = "clear" -> FALSE
      [] word = "data" -> tok = "missing_data" \/ tok = "data"
      [] word = "axis" -> tok \in {"missing_axis_labels", "partial_axis_labels"}
      [] word = "color" -> FALSE
      [] word = "type" -> tok \in {"invalid_chart_type: pie", "invalid_chart_type: ",
                                   "invalid_chart_type: other"}
      [] OTHER -> FALSE

\* word in suggestion.lower()
SuggestionMentions(s, word) ==
    Mentions(s.issue, word) \/ (\E i \in 1..Len(s.head) : Mentions(s.head[i], word))

ApplyCachedSuggestion(prompt, suggestion) ==
    prompt
    \o (IF SuggestionMentions(suggestion, "specific")
        THEN <<"Please be very specific about chart type, data handling, and visual elements.">>
        ELSE <<>>)
    \o (IF SuggestionMentions(suggestion, "clear")
        THEN <<"Ensure the chart is clear and easy to interpret with proper labels and titles.">>
        ELSE <<>>)
    \o (IF SuggestionMentions(suggestion, "data")
        THEN <<"Include proper data transformations and aggregations as needed.">>
        ELSE <<>>)

\* _template_rewrite: (prompt, reason)
TemplateRewrite(prompt, heuristic_issues) ==
    LET improvements ==
            (IF \E i \in heuristic_issues : Mentions(i, "axis")
             THEN <<"- Include clear axis labels and titles">> ELSE <<>>)
            \o (IF \E i \in heuristic_issues : Mentions(i, "color")
                THEN <<"- Use meaningful colors and ensure good contrast">> ELSE <<>>)
            \o (IF \E i \in heuristic_issues : Mentions(i, "data")
                THEN <<"- Specify data handling and transformations">> ELSE <<>>)
            \o (IF \E i \in heuristic_issues : Mentions(i, "type")
                THEN <<"- Be specific about chart type and mark selection">> ELSE <<>>)
    IN IF improvements # <<>>
       THEN [prompt |-> prompt \o <<"Additional requirements:">> \o improvements,
             reason |-> "Template rewrite addressing issues"]
       ELSE [prompt |-> prompt \o <<"Please ensure the chart is clear, well-labeled, and effectively communicates the data insights.">>,
             reason |-> "General improvement template applied"]

\* suggestions the rewriter may start from: cache_suggestions[0], the list
\* following the order of the issue list; <<>> when the cache has none
CacheSuggestionChoices(p, heuristic_issues, final_score) ==
    LET s == IF final_score < good_score
             THEN SuggestImprovements(p, heuristic_issues, 0)
             ELSE {}
    IN IF s = {} THEN {<<>>} ELSE {<<x>> : x \in s}

\* rewrite_prompt: (prompt, reason)
RewritePrompt(prompt, heuristic_issues, suggestion, resp) ==
    LET prompt_for_llm == IF suggestion # <<>>
                          THEN ApplyCachedSuggestion(prompt, suggestion[1])
                          ELSE prompt
    IN IF IsMockOrError(resp) THEN TemplateRewrite(prompt_for_llm, heuristic_issues)
       ELSE [prompt |-> resp, reason |-> "LLM rewrite"]

\* should_continue_optimization: (continue?, reason)
ShouldContinueOptimization(final_score, iteration, max_iter) ==
    IF iteration >= max_iter
    THEN [cont |-> FALSE, reason |-> "Reached maximum iterations"]
    ELSE IF final_score >= 950 /\ iteration > 1
    THEN [cont |-> FALSE, reason |-> "Achieved excellent score"]
    ELSE IF final_score >= good_score /\ iteration >= 2
    THEN [cont |-> FALSE, reason |-> "Achieved good score after multiple iterations"]
    ELSE IF final_score < floor_score /\ iteration >= 2
    THEN [cont |-> FALSE, reason |-> "Score too low after multiple iterations"]
    ELSE [cont |-> TRUE, reason |-> "Continuing optimization"]

(***************************************************************************)
(* State.                                                                  *)
(***************************************************************************)
VARIABLES
    pc,                 \* where run_optimization is
    user_query,         \* argument of the run
    max_iterations,     \* argument of the run
    state,              \* the state dictionary threaded through the agents
    iteration_history,  \* the local list of iteration records
    best_result,        \* Optional: copy of the state of the best iteration
    best_score,
    result,             \* Optional: the dictionary run_optimization returned
    cache_runs,         \* learning_cache.cache["runs"]
    patterns,           \* learning_cache.patterns
    cache_file,         \* Optional: what learning_cache.json holds
    runs_started,       \* run_optimization calls so far
    charts_built,       \* chart_builder.run calls of the run that returned
    scored,             \* (iteration, final score) of each scorer.run call of the run
    fallback_only,      \* no provider has given a usable answer in the run
    unusable_only,      \* every provider call of the run failed or gave unusable text
    provider_calls,     \* chat_completion calls of the run
    policy              \* arguments and results of a termination-policy call

vars == <<pc, user_query, max_iterations, state, iteration_history, best_result,
          best_score, result, cache_runs, patterns, cache_file, runs_started,
          charts_built, scored, fallback_only, unusable_only,
          provider_calls, policy>>

\* the state dictionary at the start of a run; a key the run has not set
\* yet holds the default the orchestrator reads it with
InitialState ==
    [iteration |-> 1, prompt |-> <<>>, chart_spec |-> EmptyChart,
     chart_valid |-> TRUE, heuristic_score |-> 0, heuristic_issues |-> {},
     should_clarify |-> FALSE, llm_score |-> 0, final_score |-> 0,
     should_continue |-> TRUE, continue_reason |-> "", status |-> "unknown",
     rewrite_reason |-> ""]

NoPolicy == [called |-> "none"]

Init ==
    /\ pc = "idle"
    /\ user_query = <<>>
    /\ max_iterations = 0
    /\ state = InitialState
    /\ iteration_history = <<>>
    /\ best_result = <<>>
    /\ best_score = 0
    /\ result = <<>>
    /\ cache_runs = <<>>
    /\ patterns = EmptyPatterns
    /\ cache_file = <<>>
    /\ runs_started = 0
    /\ charts_built = 0
    /\ scored = <<>>
    /\ fallback_only = TRUE
    /\ unusable_only = TRUE
    /\ provider_calls = 0
    /\ policy = NoPolicy

\* the provider is unavailable: chat_completion returns the mock marker
\* or an error marker
UnavailableText(resp) == IsMockOrError(resp)

\* the same for an answer that is parsed as JSON: it does not parse
UnavailableJson(resp) == resp = <<>>

\* generate_prompt reaches its chat_completion call: the query is not
\* empty and the cache suggests no prompt
PromptProviderCalled(p, query) ==
    /\ query # <<>>
    /\ ~(SuggestPrompt(p, query) # <<>> /\ SuggestPrompt(p, query)[1] # <<>>)

\* build_chart reaches its chat_completion call: the prompt is not empty
\* and the cache-first path is not taken
ChartProviderCalled(p, prompt, query) ==
    prompt # <<>> /\ ~ChartCacheHit(p, query)

\* the call failed (a marker comes back), or the provider answered with a
\* text that holds nothing: empty once stripped
UnusableText(resp) == IsMockOrError(resp) \/ resp = <<>>

\* bookkeeping of one agent step: whether it called the provider, whether
\* the provider was unavailable, and whether what came back was unusable
ProviderCall(called, unavailable, unusable) ==
    /\ provider_calls' = provider_calls + (IF called THEN 1 ELSE 0)
    /\ fallback_only' = (fallback_only /\ (called => unavailable))
    /\ unusable_only' = (unusable_only /\ (called => unusable))

(***************************************************************************)
(* run_optimization (main.py).                                             *)
(***************************************************************************)
\* the dictionary returned by the except clause
ErrorResult(s) == [status |-> "error", error |-> "exception", iteration |-> s.iteration]

\* the dictionary returned when the clarifier asks a question
ClarificationResult(s, c) ==
    [status |-> "clarification_needed",
     clarification_question |-> c.clarification_question,
     suggested_query |-> c.suggested_query,
     iteration |-> s.iteration]

\* the record appended to iteration_history
IterationResult(s) ==
    [iteration |-> s.iteration, prompt |-> s.prompt, chart_spec |-> s.chart_spec,
     heuristic_score |-> s.heuristic_score, llm_score |-> s.llm_score,
     final_score |-> s.final_score, status |-> s.status,
     should_continue |-> s.should_continue,
     continue_reason |-> s.continue_reason,
     rewrite_reason |-> s.rewrite_reason]

\* _format_final_output
FormatFinalOutput(s, history, q, n) ==
    [iteration |-> s.iteration, prompt |-> s.prompt, chart_spec |-> s.chart_spec,
     scores |-> [heuristic |-> s.heuristic_score, llm |-> s.llm_score],
     final_score |-> s.final_score, rewrite_reason |-> s.rewrite_reason,
     status |-> s.status, iteration_history |-> history,
     user_query |-> q, max_iterations |-> n]

\* a loop that goes one value beyond the cap: range(1, max_iterations + 2)
LoopHasNextInclusive(iteration, n) == iteration <= n

\* the loop "for iteration in range(1, max_iterations + 1)" has a next value
LoopHasNext(iteration, n) == iteration < n

\* run_optimization is called: the locals are initialised and the loop is
\* entered, or skipped when range(1, max_iterations + 1) is empty
StartRun(q, n) ==
    /\ pc \in {"idle", "done"}
    /\ runs_started < MaxRuns
    /\ runs_started' = runs_started + 1
    /\ user_query' = q
    /\ max_iterations' = n
    /\ state' = InitialState
    /\ iteration_history' = <<>>
    /\ best_result' = <<>>
    /\ best_score' = 0
    /\ result' = <<>>
    /\ charts_built' = 0
    /\ scored' = <<>>
    /\ fallback_only' = TRUE
    /\ unusable_only' = TRUE
    /\ provider_calls' = 0
    /\ pc' = IF LoopHasNext(0, n) THEN "prompt" ELSE "finish"
    /\ UNCHANGED <<cache_runs, patterns, cache_file, policy>>

\* an exception reaches the except clause of run_optimization
ReturnError ==
    /\ result' = <<ErrorResult(state)>>
    /\ pc' = "done"
    /\ UNCHANGED <<state, iteration_history, best_result, best_score,
                   cache_runs, patterns, cache_file, charts_built, scored>>

\* Step 1 of iteration 1: prompt_generator.run
GeneratePrompt(resp) ==
    /\ pc = "prompt"
    /\ UNCHANGED <<user_query, max_iterations, runs_started, policy>>
    /\ ProviderCall(PromptProviderCalled(patterns, user_query), UnavailableText(resp),
                    UnusableText(resp))
    /\ IF user_query = <<>>
       THEN ReturnError
       ELSE /\ state' = [state EXCEPT
                            !.prompt = GeneratePromptText(patterns, user_query, resp)]
            /\ pc' = "build"
            /\ UNCHANGED <<iteration_history, best_result, best_score, result,
                           cache_runs, patterns, cache_file, charts_built, scored>>

\* _enhance_chart_spec changes the cached dictionary itself: every stored
\* reference to it (the chart pattern, the run that recorded it, its
\* solutions) shows the change
EnhanceStored(c, cached) == IF c = cached THEN EnhanceChartSpec(c) ELSE c

PatternsAfterHit(p, q) ==
    LET h == HashQuery(q)
        cached == p.chart_patterns[h]
    IN [p EXCEPT
          !.chart_patterns[h] = EnhanceChartSpec(cached),
          !.issue_patterns =
              [i \in DOMAIN p.issue_patterns |->
                  [p.issue_patterns[i] EXCEPT
                      !.solutions =
                          [k \in 1..Len(p.issue_patterns[i].solutions) |->
                              [p.issue_patterns[i].solutions[k] EXCEPT
                                  !.chart_spec = EnhanceStored(@, cached)]]]]]

RunsAfterHit(runs, p, q) ==
    LET h == HashQuery(q)
        cached == p.chart_patterns[h]
    IN [k \in 1..Len(runs) |->
          IF HashQuery(runs[k].user_query) = h
          THEN [runs[k] EXCEPT !.chart_spec = EnhanceStored(@, cached)]
          ELSE runs[k]]

\* Step 2: chart_builder.run
BuildChart(resp) ==
    /\ pc = "build"
    /\ UNCHANGED <<user_query, max_iterations, runs_started, policy>>
    /\ ProviderCall(ChartProviderCalled(patterns, state.prompt, user_query),
                    UnavailableJson(resp), UnavailableJson(resp))
    /\ IF state.prompt = <<>>
       THEN ReturnError
       ELSE LET chart == BuildChartSpec(patterns, state.prompt, user_query, resp)
            IN /\ state' = [state EXCEPT !.chart_spec = chart,
                                         !.chart_valid = ValidateChartSpec(chart)]
               /\ patterns' = IF ChartCacheHit(patterns, user_query)
                              THEN PatternsAfterHit(patterns, user_query)
                              ELSE patterns
               /\ cache_runs' = IF ChartCacheHit(patterns, user_query)
                                THEN RunsAfterHit(cache_runs, patterns, user_query)
                                ELSE cache_runs
               /\ charts_built' = charts_built + 1
               /\ pc' = "heuristic"
               /\ UNCHANGED <<iteration_history, best_result, best_score, result,
                              cache_file, scored>>

\* the end of the loop body: the record is appended, and the loop goes on
\* to the next iteration or ends
AppendAndAdvance(s) ==
    /\ iteration_history' = Append(iteration_history, IterationResult(s))
    /\ IF LoopHasNext(s.iteration, max_iterations)
       THEN /\ state' = [s EXCEPT !.iteration = s.iteration + 1]
            /\ pc' = "build"
       ELSE /\ state' = s
            /\ pc' = "finish"

\* Step 3: heuristic_evaluator.run, and the clarifier when it asks for it
HeuristicEvaluate ==
    /\ pc = "heuristic"
    /\ UNCHANGED <<user_query, max_iterations, runs_started, policy>>
    /\ UNCHANGED <<fallback_only, unusable_only, provider_calls>>
    /\ LET ev == HeuristicEvaluateChart(state.chart_spec)
           should_clarify == ev.score = 0 /\ "invalid_input" \in ev.issues
           s == [state EXCEPT !.heuristic_score = ev.score,
                              !.heuristic_issues = ev.issues,
                              !.should_clarify = should_clarify]
           c == ClarifierRun(user_query)
       IN IF state.chart_spec = EmptyChart \/ ~ev.has_raw
          THEN ReturnError
          ELSE IF should_clarify /\ c.clarification_needed
          THEN /\ result' = <<ClarificationResult(s, c)>>
               /\ state' = s
               /\ pc' = "done"
               /\ UNCHANGED <<iteration_history, best_result, best_score,
                              cache_runs, patterns, cache_file, charts_built, scored>>
          ELSE IF s.chart_valid
          THEN /\ state' = s
               /\ pc' = "evaluate"
               /\ UNCHANGED <<iteration_history, best_result, best_score, result,
                              cache_runs, patterns, cache_file, charts_built, scored>>
          ELSE /\ AppendAndAdvance(s)
               /\ UNCHANGED <<best_result, best_score, result,
                              cache_runs, patterns, cache_file, charts_built, scored>>

\* the break of the loop: the scorer said stop
Breaks(s) == ~s.should_continue

\* Steps 4 and 5: llm_evaluator.run, scorer.run, the best result, and the
\* check that ends the loop
EvaluateAndScore(resp) ==
    /\ pc = "evaluate"
    /\ UNCHANGED <<user_query, max_iterations, runs_started, policy>>
    /\ ProviderCall(TRUE, UnavailableJson(resp), UnavailableJson(resp))
    /\ LET llm_score == LLMEvaluateChart(state.chart_spec, user_query, resp)
           final_score == CalculateFinalScore(state.heuristic_score, llm_score)
           sc == ShouldContinue(final_score, state.iteration, state.heuristic_issues)
           s == [state EXCEPT !.llm_score = llm_score,
                              !.final_score = final_score,
                              !.should_continue = sc.cont,
                              !.continue_reason = sc.reason,
                              !.status = DetermineStatus(final_score, state.iteration)]
       IN /\ scored' = Append(scored, [iteration |-> state.iteration,
                                       final_score |-> final_score])
          /\ IF final_score > best_score
             THEN best_score' = final_score /\ best_result' = <<s>>
             ELSE UNCHANGED <<best_score, best_result>>
          /\ IF Breaks(s)
             THEN /\ state' = s
                  /\ pc' = "finish"
                  /\ UNCHANGED iteration_history
             ELSE IF s.iteration < max_iterations
             THEN /\ state' = s
                  /\ pc' = "rewrite"
                  /\ UNCHANGED iteration_history
             ELSE AppendAndAdvance(s)
          /\ UNCHANGED <<result, cache_runs, patterns, cache_file, charts_built>>

\* Step 6: rewriter.run, then the end of the loop body
Rewrite(suggestion, resp) ==
    /\ pc = "rewrite"
    /\ suggestion \in CacheSuggestionChoices(patterns, state.heuristic_issues,
                                             state.final_score)
    /\ UNCHANGED <<user_query, max_iterations, runs_started, policy>>
    /\ ProviderCall(state.prompt # <<>>, UnavailableText(resp), UnusableText(resp))
    /\ IF state.prompt = <<>>
       THEN ReturnError
       ELSE LET rw == RewritePrompt(state.prompt, state.heuristic_issues,
                                    suggestion, resp)
                so == ShouldContinueOptimization(state.final_score, state.iteration,
                                                 max_iterations)
                s == [state EXCEPT !.prompt = rw.prompt,
                                   !.rewrite_reason = rw.reason,
                                   !.should_continue = so.cont,
                                   !.continue_reason = so.reason]
            IN /\ AppendAndAdvance(s)
               /\ UNCHANGED <<best_result, best_score, result, cache_runs, patterns,
                              cache_file, charts_built, scored>>

\* _save_cache: the file holds the cache when the write succeeds, and is
\* left as it was when it fails (the exception is caught)
SaveCache(file, runs, p, ok) ==
    IF ok THEN <<[runs |-> runs, patterns |-> p]>> ELSE file

\* the run record of add_run (the timestamp and the feedback text left out)
RunData(q, s) ==
    [user_query |-> q, prompt |-> s.prompt, chart_spec |-> s.chart_spec,
     heuristic_score |-> s.heuristic_score, llm_score |-> s.llm_score,
     heuristic_issues |-> s.heuristic_issues, final_score |-> s.final_score]

\* the run is saved to the learning cache
SavesRun(s) == s.final_score > 0

\* a run whose add_run lets the exception of a failed file write through
\* to the except clause of run_optimization
FinishRaisesOnWriteFailure(ok1, ok2) ==
    /\ pc = "finish"
    /\ UNCHANGED <<user_query, max_iterations, runs_started, policy>>
    /\ UNCHANGED <<fallback_only, unusable_only, provider_calls>>
    /\ LET result_state == IF best_result # <<>> THEN best_result[1] ELSE state
           run_data == RunData(user_query, result_state)
           runs == Append(cache_runs, run_data)
           learned == LearnFromRun(patterns, run_data)
       IN /\ IF SavesRun(result_state)
             THEN /\ cache_runs' = runs
                  /\ patterns' = learned
                  /\ cache_file' = SaveCache(SaveCache(cache_file, runs, learned, ok1),
                                             runs, learned, ok1 /\ ok2)
             ELSE UNCHANGED <<cache_runs, patterns, cache_file>>
          /\ result' = IF SavesRun(result_state) /\ ~(ok1 /\ ok2)
                       THEN <<ErrorResult(state)>>
                       ELSE <<FormatFinalOutput(result_state, iteration_history,
                                                user_query, max_iterations)>>
          /\ pc' = "done"
          /\ UNCHANGED <<state, iteration_history, best_result, best_score,
                         charts_built, scored>>

\* after the loop: the best result (or the last state), add_run, and the
\* final output
Finish(ok1, ok2) ==
    /\ pc = "finish"
    /\ UNCHANGED <<user_query, max_iterations, runs_started, policy>>
    /\ UNCHANGED <<fallback_only, unusable_only, provider_calls>>
    /\ LET result_state == IF best_result # <<>> THEN best_result[1] ELSE state
           run_data == RunData(user_query, result_state)
           runs == Append(cache_runs, run_data)
           learned == LearnFromRun(patterns, run_data)
       IN /\ IF SavesRun(result_state)
             THEN /\ cache_runs' = runs
                  /\ patterns' = learned
                  /\ cache_file' = SaveCache(SaveCache(cache_file, runs, learned, ok1),
                                             runs, learned, ok2)
             ELSE UNCHANGED <<cache_runs, patterns, cache_file>>
          /\ result' = <<FormatFinalOutput(result_state, iteration_history,
                                           user_query, max_iterations)>>
          /\ pc' = "done"
          /\ UNCHANGED <<state, iteration_history, best_result, best_score,
                         charts_built, scored>>

(***************************************************************************)
(* Direct calls of the termination policies, on a fresh agent.             *)
(***************************************************************************)
PolicyScores == {0, 299, 300, 700, 799, 800, 949, 950, 970, 1000}
PolicyIssueLists == {{}, {"missing_title"}, {"missing_data"},
                     {"invalid_chart_spec", "missing_title"}}

\* ScoringAgent().should_continue(final_score, iteration, heuristic_issues)
\* and determine_status(final_score, iteration)
CallShouldContinue(final_score, iteration, heuristic_issues) ==
    /\ pc = "idle"
    /\ policy' = [called |-> "should_continue",
                  final_score |-> final_score,
                  iteration |-> iteration,
                  heuristic_issues |-> heuristic_issues,
                  cont |-> ShouldContinue(final_score, iteration, heuristic_issues).cont,
                  reason |-> ShouldContinue(final_score, iteration, heuristic_issues).reason,
                  status |-> DetermineStatus(final_score, iteration)]
    /\ pc' = "called"
    /\ UNCHANGED <<user_query, max_iterations, state, iteration_history, best_result,
                   best_score, result, cache_runs, patterns, cache_file,
                   runs_started, charts_built, scored, fallback_only,
                   unusable_only, provider_calls>>

\* PromptRewriterAgent().should_continue_optimization(final_score,
\* iteration, max_iterations)
CallShouldContinueOptimization(final_score, iteration, max_iter) ==
    /\ pc = "idle"
    /\ policy' = [called |-> "should_continue_optimization",
                  final_score |-> final_score,
                  iteration |-> iteration,
                  max_iterations |-> max_iter,
                  cont |-> ShouldContinueOptimization(final_score, iteration, max_iter).cont,
                  reason |-> ShouldContinueOptimization(final_score, iteration, max_iter).reason]
    /\ pc' = "called"
    /\ UNCHANGED <<user_query, max_iterations, state, iteration_history, best_result,
                   best_score, result, cache_runs, patterns, cache_file,
                   runs_started, charts_built, scored, fallback_only,
                   unusable_only, provider_calls>>

\* scores given to calculate_final_score: 0.00 .. 0.03, 5.00, 8.49, 8.50,
\* 9.99, 10.00
ScoreArgs == {0, 1, 2, 3, 500, 849, 850, 999, 1000}

\* ScoringAgent().calculate_final_score(heuristic_score, llm_score)
CallCalculateFinalScore(heuristic_score, llm_score) ==
    /\ pc = "idle"
    /\ policy' = [called |-> "calculate_final_score",
                  heuristic_score |-> heuristic_score,
                  llm_score |-> llm_score,
                  final_score |-> CalculateFinalScore(heuristic_score, llm_score)]
    /\ pc' = "called"
    /\ UNCHANGED <<user_query, max_iterations, state, iteration_history, best_result,
                   best_score, result, cache_runs, patterns, cache_file,
                   runs_started, charts_built, scored, fallback_only,
                   unusable_only, provider_calls>>

(***************************************************************************)
(* Specification.                                                          *)
(***************************************************************************)
Next ==
    \/ \E q \in Queries, n \in 0..MaxIterArg : StartRun(q, n)
    \/ \E resp \in TextResponses : GeneratePrompt(resp)
    \/ \E resp \in ChartResponses : BuildChart(resp)
    \/ HeuristicEvaluate
    \/ \E resp \in ScoreResponses : EvaluateAndScore(resp)
    \/ \E resp \in TextResponses :
         \E suggestion \in CacheSuggestionChoices(patterns, state.heuristic_issues,
                                                  state.final_score) :
            Rewrite(suggestion, resp)
    \/ \E ok1 \in BOOLEAN, ok2 \in BOOLEAN : Finish(ok1, ok2)
    \/ \E fs \in PolicyScores, i \in 1..MaxPolicyIter, issues \in PolicyIssueLists :
         CallShouldContinue(fs, i, issues)
    \/ \E fs \in PolicyScores, i \in 1..MaxPolicyIter, n \in 1..MaxPolicyIter :
         CallShouldContinueOptimization(fs, i, n)
    \/ \E h \in ScoreArgs, l \in ScoreArgs : CallCalculateFinalScore(h, l)

Spec == Init /\ [][Next]_vars

\* every step of a run is a call that returns: a run that has started is
\* carried through to its return
FairSpec == Spec /\ WF_vars(Next)

(***************************************************************************)
(* Direct calls of LearningCache.add_run on the cache (learning_cache.py), *)
(* as the tests and the command line tools of the repository make them.    *)
(***************************************************************************)
MaxAddRuns == 2

CacheQueries == {QueryData, QueryDataUpper, QueryDataBlank, QueryCollide}

\* the prompt and the chart of a recorded run
CacheArtifacts ==
    {[prompt |-> <<"P">>, chart_spec |-> GenerateDynamicChartSpec(<<"P">>, QueryData)],
     [prompt |-> <<"Q">>, chart_spec |-> EnhanceChartSpec(ProviderChartPoor)]}

\* 7.5, 8.0 and 9.0
CacheScores == {750, 800, 900}

CacheIssueLists == {{}, {"missing_title"}}

\* the argument lists of add_run
CacheRuns ==
    {[user_query |-> q, prompt |-> a.prompt, chart_spec |-> a.chart_spec,
      heuristic_score |-> fs, llm_score |-> fs,
      heuristic_issues |-> issues, final_score |-> fs] :
        q \in CacheQueries, a \in CacheArtifacts, fs \in CacheScores,
        issues \in CacheIssueLists}

\* add_run, on a cache of fewer than max_runs runs
AddRunUpTo(max_runs, run_data, ok1, ok2) ==
    /\ pc = "idle"
    /\ Len(cache_runs) < max_runs
    /\ LET runs == Append(cache_runs, run_data)
           learned == LearnFromRun(patterns, run_data)
       IN /\ cache_runs' = runs
          /\ patterns' = learned
          /\ cache_file' = SaveCache(SaveCache(cache_file, runs, learned, ok1),
                                     runs, learned, ok2)
    /\ policy' = [called |-> "add_run", saved |-> (ok1 /\ ok2)]
    /\ UNCHANGED <<pc, user_query, max_iterations, state, iteration_history,
                   best_result, best_score, result, runs_started, charts_built,
                   scored, fallback_only, unusable_only, provider_calls>>

AddRun(run_data, ok1, ok2) == AddRunUpTo(MaxAddRuns, run_data, ok1, ok2)

NextCache ==
    \E run_data \in CacheRuns, ok1 \in BOOLEAN, ok2 \in BOOLEAN :
        AddRun(run_data, ok1, ok2)

SpecCache == Init /\ [][NextCache]_vars

(***************************************************************************)
(* Direct calls of add_run, clear_cache and reset_patterns, and the cache  *)
(* a new LearningCache() loads from the file.                              *)
(***************************************************************************)
PatternTypes == {"query_patterns", "issue_patterns", "prompt_patterns",
                 "chart_patterns", "feedback_patterns"}

\* a constructor that takes the file's "patterns" as the pattern maps
LoadCacheAsWritten(file) ==
    IF file # <<>> THEN file[1] ELSE [runs |-> <<>>, patterns |-> EmptyMap]

\* LearningCache(): _load_cache (the file's content, or an empty cache
\* when there is no file) and _load_patterns (patterns.get(type, {}) for
\* each of the five types); json.dump and json.load keep the texts,
\* numbers, lists and dictionaries of a cache as they are
LoadCache(file) ==
    LET cache == IF file # <<>> THEN file[1]
                 ELSE [runs |-> <<>>, patterns |-> EmptyMap]
    IN [runs |-> cache.runs,
        patterns |-> [t \in PatternTypes |->
                        IF t \in DOMAIN cache.patterns THEN cache.patterns[t]
                        ELSE EmptyMap]]

\* get_stats (avg_score left out)
GetStats(runs, p) ==
    [total_runs |-> Len(runs),
     query_patterns |-> Cardinality(DOMAIN p.query_patterns),
     issue_patterns |-> Cardinality(DOMAIN p.issue_patterns),
     prompt_patterns |-> Cardinality(DOMAIN p.prompt_patterns),
     chart_patterns |-> Cardinality(DOMAIN p.chart_patterns)]

\* a clear_cache that empties the run list and leaves the five maps
ClearCacheRunsOnly(ok) ==
    /\ pc = "idle"
    /\ cache_runs' = <<>>
    /\ patterns' = patterns
    /\ cache_file' = SaveCache(cache_file, <<>>, EmptyMap, ok)
    /\ policy' = [called |-> "clear_cache", saved |-> ok]
    /\ UNCHANGED <<pc, user_query, max_iterations, state, iteration_history,
                   best_result, best_score, result, runs_started, charts_built,
                   scored, fallback_only, unusable_only, provider_calls>>

\* clear_cache: the cache becomes {"runs": [], "patterns": {}}, each of
\* the five maps becomes {}, and the cache is written to the file
ClearCache(ok) ==
    /\ pc = "idle"
    /\ cache_runs' = <<>>
    /\ patterns' = [t \in PatternTypes |-> EmptyMap]
    /\ cache_file' = SaveCache(cache_file, <<>>, EmptyMap, ok)
    /\ policy' = [called |-> "clear_cache", saved |-> ok]
    /\ UNCHANGED <<pc, user_query, max_iterations, state, iteration_history,
                   best_result, best_score, result, runs_started, charts_built,
                   scored, fallback_only, unusable_only, provider_calls>>

\* a reset_patterns that leaves the chart patterns
ResetPatternsKeepsCharts(ok) ==
    /\ pc = "idle"
    /\ cache_runs' = cache_runs
    /\ patterns' = [t \in PatternTypes |->
                      IF t = "chart_patterns" THEN patterns[t] ELSE EmptyMap]
    /\ cache_file' = SaveCache(cache_file, cache_runs, EmptyMap, ok)
    /\ policy' = [called |-> "reset_patterns", saved |-> ok]
    /\ UNCHANGED <<pc, user_query, max_iterations, state, iteration_history,
                   best_result, best_score, result, runs_started, charts_built,
                   scored, fallback_only, unusable_only, provider_calls>>

\* reset_patterns: each of the five maps becomes {}, cache["patterns"]
\* becomes {}, the runs stay, and the cache is written to the file
ResetPatterns(ok) ==
    /\ pc = "idle"
    /\ cache_runs' = cache_runs
    /\ patterns' = [t \in PatternTypes |-> EmptyMap]
    /\ cache_file' = SaveCache(cache_file, cache_runs, EmptyMap, ok)
    /\ policy' = [called |-> "reset_patterns", saved |-> ok]
    /\ UNCHANGED <<pc, user_query, max_iterations, state, iteration_history,
                   best_result, best_score, result, runs_started, charts_built,
                   scored, fallback_only, unusable_only, provider_calls>>

\* the argument lists of add_run given between clear_cache and
\* reset_patterns calls: "data" and "data " with the prompt "P", at 7.5
\* and at 9.0
StoreRuns ==
    {run_data \in CacheRuns :
        /\ run_data.user_query \in {QueryData, QueryDataBlank}
        /\ run_data.prompt = <<"P">>
        /\ run_data.final_score \in {750, 900}}

NextStore ==
    \/ \E run_data \in StoreRuns, ok1 \in BOOLEAN, ok2 \in BOOLEAN :
         AddRun(run_data, ok1, ok2)
    \/ \E ok \in BOOLEAN : ClearCache(ok)
    \/ \E ok \in BOOLEAN : ResetPatterns(ok)

SpecStore == Init /\ [][NextStore]_vars

(***************************************************************************)
(* A run for "data" in a process whose cache holds earlier runs for "data" *)
(* (recorded by add_run with the chart of the template), so that the       *)
(* cache-first paths of the agents are taken.                              *)
(***************************************************************************)
NextWarm ==
    \/ \E run_data \in StoreRuns :
         /\ run_data.user_query = QueryData
         /\ AddRun(run_data, TRUE, TRUE)
    \/ \E n \in 1..MaxIterArg : StartRun(QueryData, n)
    \/ \E resp \in TextResponses : GeneratePrompt(resp)
    \/ \E resp \in ChartResponses : BuildChart(resp)
    \/ HeuristicEvaluate
    \/ \E resp \in ScoreResponses : EvaluateAndScore(resp)
    \/ \E resp \in TextResponses :
         \E suggestion \in CacheSuggestionChoices(patterns, state.heuristic_issues,
                                                  state.final_score) :
            Rewrite(suggestion, resp)
    \/ \E ok1 \in BOOLEAN, ok2 \in BOOLEAN : Finish(ok1, ok2)

SpecWarm == Init /\ [][NextWarm]_vars

(***************************************************************************)
(* Long sequences of add_run calls for one issue: the first PruneLead runs *)
(* and the runs from the twentieth on have any of the scores 7.5, 8.0 and  *)
(* 9.0, the runs in between score 8.0.                                     *)
(***************************************************************************)
MaxPruneRuns == 22
PruneLead == 2

NextPrune ==
    \E run_data \in CacheRuns :
        /\ run_data.user_query = QueryData
        /\ run_data.prompt = <<"P">>
        /\ run_data.heuristic_issues = {"missing_title"}
        /\ (Len(cache_runs) >= PruneLead /\ Len(cache_runs) < max_solutions - 1)
              => run_data.final_score = learn_threshold
        /\ AddRunUpTo(MaxPruneRuns, run_data, TRUE, TRUE)

SpecPrune == Init /\ [][NextPrune]_vars

(***************************************************************************)
(* Two threads that call add_run on the shared learning_cache instance.    *)
(* A thread can be suspended where add_run calls python code: before       *)
(* _learn_from_run, inside sorted() (the key function, after the list was  *)
(* copied), and before each save.  policy holds the two calls in progress. *)
(***************************************************************************)
\* sorted(solutions, key=score, reverse=True)[:20]
RECURSIVE SortSolutions(_)
SortSolutions(solutions) ==
    IF solutions = <<>> THEN <<>>
    ELSE InsertSolution(SortSolutions(SubSeq(solutions, 1, Len(solutions) - 1)),
                        solutions[Len(solutions)])

StartThreads(run1, run2) ==
    /\ pc = "idle"
    /\ pc' = "threads"
    /\ policy' = [called |-> "add_run in two threads",
                  t |-> <<[at |-> "append", run_data |-> run1, copy |-> EmptyMap],
                          [at |-> "append", run_data |-> run2, copy |-> EmptyMap]>>]
    /\ UNCHANGED <<user_query, max_iterations, state, iteration_history, best_result,
                   best_score, result, cache_runs, patterns, cache_file,
                   runs_started, charts_built, scored, fallback_only,
                   unusable_only, provider_calls>>

\* the next step of thread i in add_run; the runs have at most one issue
AddRunStep(i, ok1, ok2) ==
    /\ pc = "threads"
    /\ policy.t[i].at # "done"
    /\ LET th == policy.t[i]
           run_data == th.run_data
           issues == run_data.heuristic_issues
           sorts == issues # {} /\ run_data.final_score >= solution_threshold
           solution == [prompt |-> run_data.prompt,
                        chart_spec |-> run_data.chart_spec,
                        score |-> run_data.final_score]
           learned == LearnFromRun(patterns, run_data)
           Goto(at, copy) ==
               policy' = [policy EXCEPT !.t[i].at = at, !.t[i].copy = copy]
       IN CASE th.at = "append" ->
                 \* self.cache["runs"].append(run_data)
                 /\ cache_runs' = Append(cache_runs, run_data)
                 /\ Goto("learn", th.copy)
                 /\ UNCHANGED <<patterns, cache_file>>
            [] th.at = "learn" ->
                 \* the query pattern, and for the issue: the counter and
                 \* solutions.append(solution)
                 /\ patterns' =
                      [patterns EXCEPT
                         !.query_patterns = learned.query_patterns,
                         !.issue_patterns =
                            [k \in DOMAIN learned.issue_patterns |->
                               IF k \notin issues THEN patterns.issue_patterns[k]
                               ELSE [count |-> learned.issue_patterns[k].count,
                                     solutions |->
                                        LET old == IF k \in DOMAIN patterns.issue_patterns
                                                   THEN patterns.issue_patterns[k].solutions
                                                   ELSE <<>>
                                        IN IF sorts THEN Append(old, solution) ELSE old]],
                         !.prompt_patterns = IF sorts THEN @ ELSE learned.prompt_patterns,
                         !.chart_patterns = IF sorts THEN @ ELSE learned.chart_patterns]
                 /\ Goto(IF sorts THEN "sort" ELSE "save", th.copy)
                 /\ UNCHANGED <<cache_runs, cache_file>>
            [] th.at = "sort" ->
                 \* sorted() copies pattern["solutions"], then calls the key
                 /\ Goto("assign", [k \in issues |-> patterns.issue_patterns[k].solutions])
                 /\ UNCHANGED <<cache_runs, patterns, cache_file>>
            [] th.at = "assign" ->
                 \* pattern["solutions"] = sorted(...)[:20], then the prompt
                 \* pattern and the chart pattern
                 /\ patterns' =
                      [patterns EXCEPT
                         !.issue_patterns =
                            [k \in DOMAIN patterns.issue_patterns |->
                               IF k \notin issues THEN patterns.issue_patterns[k]
                               ELSE [patterns.issue_patterns[k] EXCEPT
                                        !.solutions = SortSolutions(th.copy[k])]],
                         !.prompt_patterns = learned.prompt_patterns,
                         !.chart_patterns = learned.chart_patterns]
                 /\ Goto("save", EmptyMap)
                 /\ UNCHANGED <<cache_runs, cache_file>>
            [] th.at = "save" ->
                 \* _save_patterns and _save_cache
                 /\ cache_file' = SaveCache(SaveCache(cache_file, cache_runs, patterns, ok1),
                                            cache_runs, patterns, ok2)
                 /\ Goto("done", th.copy)
                 /\ UNCHANGED <<cache_runs, patterns>>
    /\ UNCHANGED <<pc, user_query, max_iterations, state, iteration_history,
                   best_result, best_score, result, runs_started, charts_built,
                   scored, fallback_only, unusable_only, provider_calls>>

NextThreads ==
    \/ \E run1 \in StoreRuns, run2 \in StoreRuns :
         /\ run1.user_query = QueryData /\ run2.user_query = QueryData
         /\ StartThreads(run1, run2)
    \/ \E i \in {1, 2}, ok1 \in BOOLEAN, ok2 \in BOOLEAN : AddRunStep(i, ok1, ok2)

SpecThreads == Init /\ [][NextThreads]_vars

(***************************************************************************)
(* Properties.                                                             *)
(***************************************************************************)
\* a direct call of ScoringAgent.should_continue has returned
ScorerCalled == policy.called = "should_continue"

\* C1: at iteration 1, with no critical issue among the heuristic issues,
\* should_continue returns "continue" whatever the score is, also for a
\* score of 9.5 or more
C1_FirstIterationContinues ==
    (ScorerCalled /\ policy.iteration = 1
       /\ policy.heuristic_issues \cap critical_issues = {})
    => policy.cont

\* a call at iteration 1 with a score above the target and no critical issue
C1_Witness ==
    /\ ScorerCalled
    /\ policy.iteration = 1
    /\ policy.final_score >= continue_threshold
    /\ policy.heuristic_issues \cap critical_issues = {}
    /\ policy.reason = "Score below threshold, continuing iteration"

\* the run has returned a final result (the output of _format_final_output)
ReturnedFinal ==
    pc = "done" /\ result # <<>> /\ "iteration_history" \in DOMAIN result[1]

ReturnedError ==
    pc = "done" /\ result # <<>> /\ "error" \in DOMAIN result[1]

ReturnedClarification ==
    pc = "done" /\ result # <<>> /\ "clarification_question" \in DOMAIN result[1]

DecidedAtCap ==
    /\ pc = "finish"
    /\ scored # <<>>
    /\ scored[Len(scored)].iteration = max_iterations

\* C3: with a caller-supplied cap max_iterations = N >= 1, the decision
\* taken at iteration N for a score below 9.5 is stop, with the
\* max-iterations reason
C3_CapDecisionStops ==
    (DecidedAtCap /\ scored[Len(scored)].final_score < continue_threshold)
    => (~state.should_continue
          /\ state.continue_reason = "Maximum iterations reached")

\* iteration j's score was recorded and no later iteration has begun
LastIteration(j) ==
    /\ j = Len(scored)
    /\ state.iteration = scored[j].iteration
    /\ charts_built = scored[j].iteration

\* C4: an iteration i >= 2 below the cap with a combined score >= 8.0 is
\* the last one of the run
C4_GoodScoreStops ==
    \A j \in 1..Len(scored) :
       (scored[j].iteration >= 2 /\ scored[j].iteration < max_iterations
          /\ scored[j].final_score >= good_score)
       => LastIteration(j)

\* C5: an iteration i >= 2 below the cap with a combined score < 3.0 is
\* the last one of the run
C5_FloorStops ==
    \A j \in 1..Len(scored) :
       (scored[j].iteration >= 2 /\ scored[j].iteration < max_iterations
          /\ scored[j].final_score < floor_score)
       => LastIteration(j)

\* the run has returned, and the artifact of its last iteration lacks a
\* required top-level field ($schema, data, mark or encoding)
ReturnedOnInvalidArtifact ==
    /\ pc = "done"
    /\ charts_built >= 1
    /\ ~IsValidChartSpec(state.chart_spec)

\* C6: a run whose artifact lacks a required top-level field returns a
\* clarification result, not an error result and not a scored result
C6_InvalidArtifactClarifies ==
    ReturnedOnInvalidArtifact => ReturnedClarification

\* C7: for the query "data", with every provider unavailable, the run
\* returns a clarification result carrying a question, and no result
\* carrying a numeric final score
C7_VagueQueryClarifies ==
    (pc = "done" /\ user_query = QueryData /\ max_iterations >= 1 /\ fallback_only)
    => (ReturnedClarification /\ "final_score" \notin DOMAIN result[1])

\* run_optimization has been called and has not returned
Running == pc \in {"prompt", "build", "heuristic", "evaluate", "rewrite", "finish"}

Bool2Nat(b) == IF b THEN 1 ELSE 0

\* at most max_iterations charts are built; the iteration in progress is
\* the next one after the charts built so far, and the records appended
\* are those of iterations 1, 2, ... in this order; what is returned is
\* one result of exactly one kind
BoundedOrderedRun ==
    /\ charts_built <= max_iterations
    /\ (Running \/ pc = "done") =>
          /\ (pc = "build" => state.iteration = charts_built + 1)
          /\ (pc \in {"heuristic", "evaluate", "rewrite"}
                => state.iteration = charts_built)
          /\ \A j \in 1..Len(iteration_history) : iteration_history[j].iteration = j
          /\ \A j \in 1..Len(scored) :
                \A k \in 1..Len(scored) :
                   j < k => scored[j].iteration < scored[k].iteration
    /\ Len(result) = Bool2Nat(pc = "done")
    /\ pc = "done" =>
          Bool2Nat(ReturnedFinal) + Bool2Nat(ReturnedClarification)
             + Bool2Nat(ReturnedError) = 1

\* C8: for every query and every max_iterations >= 0 the run terminates,
\* having built at most max_iterations charts, with its iterations in the
\* order 1, 2, ..., and returns exactly one of a final result, a
\* clarification result or an error result
C8_RunTerminates ==
    /\ []BoundedOrderedRun
    /\ (Running ~> pc = "done")

\* a run that built and scored a chart in every iteration its cap allows,
\* and returned a final result
C8_Witness ==
    /\ ReturnedFinal
    /\ max_iterations = MaxIterArg
    /\ charts_built = max_iterations
    /\ Len(scored) = max_iterations

\* C9: a final result returned after k iterations (chart built and scored
\* k times) has exactly k history records, of iterations 1..k in order,
\* the record of the iteration of the stop decision included
C9_HistoryComplete ==
    (ReturnedFinal /\ Len(scored) = charts_built)
    => /\ Len(result[1].iteration_history) = charts_built
       /\ \A j \in 1..Len(result[1].iteration_history) :
             result[1].iteration_history[j].iteration = j

\* C10: the error result of an exception raised in iteration i reports the
\* records accumulated for iterations 1..i-1
C10_ErrorReportsHistory ==
    (ReturnedError /\ iteration_history # <<>>)
    => /\ "iteration_history" \in DOMAIN result[1]
       /\ result[1].iteration_history = iteration_history

\* C11: a run with an empty query calls no provider, builds and scores no
\* chart, leaves the run list and the pattern maps of the cache as they
\* were, and returns an error result
C11_EmptyQueryRejected ==
    [][(Running /\ user_query = QueryEmpty)
         => /\ UNCHANGED <<cache_runs, patterns>>
            /\ provider_calls' = 0
            /\ charts_built' = 0
            /\ scored' = <<>>
            /\ (pc' = "done" => ReturnedError')]_vars

\* C12: a run for a non-empty query and max_iterations >= 1 in which every
\* provider call failed or returned unusable text returns a final result,
\* not an error result
C12_FallbackCompletes ==
    (pc = "done" /\ user_query # QueryEmpty /\ max_iterations >= 1 /\ unusable_only)
    => ReturnedFinal

\* chart_builder.run has just returned its artifact to the loop
ChartHandedOver == pc = "heuristic"

\* C13: whatever the generation provider answers, the artifact build_chart
\* returns holds all of $schema, data, mark and encoding
C13_ArtifactAlwaysValid ==
    ChartHandedOver
    => /\ state.chart_spec.schema
       /\ state.chart_spec.data
       /\ state.chart_spec.mark # "absent"
       /\ state.chart_spec.encoding

\* C14: a rewrite for a non-empty issue list gives a text that is not
\* empty and is not the prompt it was given
C14_RewriteChangesPrompt ==
    [][(pc = "rewrite" /\ state.heuristic_issues # {})
         => (state'.prompt # <<>> /\ state'.prompt # state.prompt)]_vars
\* an add_run call has just returned: the run list is one longer, and its
\* last element is the run recorded
AddRunReturned == Len(cache_runs') = Len(cache_runs) + 1
RecordedRun == cache_runs'[Len(cache_runs')]

\* the entry of a fingerprint in the three per-query maps
HasEntry(p, h) ==
    h \in DOMAIN p.query_patterns \cap DOMAIN p.prompt_patterns
           \cap DOMAIN p.chart_patterns
SameQueryMaps(p1, p2) ==
    /\ p1.query_patterns = p2.query_patterns
    /\ p1.prompt_patterns = p2.prompt_patterns
    /\ p1.chart_patterns = p2.chart_patterns
\* the three maps of p2 are those of p1 but for the fingerprint h
SameQueryMapsBut(p1, p2, h) ==
    /\ \A m \in {"query_patterns", "prompt_patterns", "chart_patterns"} :
          /\ DOMAIN p2[m] = DOMAIN p1[m] \cup {h}
          /\ \A k \in DOMAIN p1[m] \ {h} : p2[m][k] = p1[m][k]

\* C15: an add_run with final_score < 8.0 leaves the query, prompt and
\* chart maps unchanged (an existing entry stays); one with final_score
\* >= 8.0 sets the three entries of the query's fingerprint to the run's
\* values and leaves the entries of the other fingerprints alone
C15_LearnsOnlyAtThreshold ==
    [][AddRunReturned =>
         LET h == HashQuery(RecordedRun.user_query)
         IN IF RecordedRun.final_score < learn_threshold
            THEN SameQueryMaps(patterns, patterns')
            ELSE /\ SameQueryMapsBut(patterns, patterns', h)
                 /\ patterns'.query_patterns[h].score = RecordedRun.final_score
                 /\ patterns'.query_patterns[h].query = RecordedRun.user_query
                 /\ patterns'.prompt_patterns[h] = RecordedRun.prompt
                 /\ patterns'.chart_patterns[h] = RecordedRun.chart_spec]_vars

\* a run below the threshold was recorded for a fingerprint that has an
\* entry, after a run that overwrote an entry
C15_Witness ==
    /\ Len(cache_runs) = 2
    /\ cache_runs[1].final_score >= learn_threshold
    /\ cache_runs[2].final_score < learn_threshold
    /\ HashQuery(cache_runs[2].user_query) = HashQuery(cache_runs[1].user_query)
    /\ cache_runs[2].prompt # cache_runs[1].prompt
    /\ HasEntry(patterns, HashQuery(cache_runs[2].user_query))

\* C16: over any sequence of add_run calls the score stored in the entry
\* of a fingerprint never decreases, and the entry is never removed: a
\* later run with a lower score does not replace a higher-scoring entry
C16_StoredScoreNeverDecreases ==
    [][\A h \in DOMAIN patterns.query_patterns :
          /\ h \in DOMAIN patterns'.query_patterns
          /\ patterns'.query_patterns[h].score >= patterns.query_patterns[h].score]_vars

\* user_query.lower().strip(): the text the chart builder compares
Normalized(query) == Strip(Lower(query))

\* the query text stored with the entry that a lookup of query returns
StoredQuery(p, query) == p.query_patterns[HashQuery(query)].query

\* the cache-first paths of the two agents return the cached entry
PromptFromCache(p, query) == query # <<>> /\ ~PromptProviderCalled(p, query)
ChartFromCache(p, query) == ChartCacheHit(p, query)

\* C17: suggest_prompt, suggest_chart_spec and the cache-first paths of the
\* prompt generator and of the chart builder return a cached entry only
\* when the query text stored with the entry equals the input query after
\* normalization; for a text that shares its fingerprint with a recorded
\* text but differs from it, they return nothing
C17_LookupsVerifyText ==
    \A query \in CacheQueries :
        (\/ SuggestPrompt(patterns, query) # <<>>
         \/ SuggestChartSpec(patterns, query) # <<>>
         \/ PromptFromCache(patterns, query)
         \/ ChartFromCache(patterns, query))
        => /\ HashQuery(query) \in DOMAIN patterns.query_patterns
           /\ Normalized(StoredQuery(patterns, query)) = Normalized(query)

\* the runs that add_run recorded in the per-query maps
LearnedRuns == {i \in 1..Len(cache_runs) : LearnsQuery(cache_runs[i].final_score)}

\* C18: two queries that are equal after case folding and whitespace
\* folding have the same fingerprint, and after add_run has recorded an
\* entry under one of them suggest_prompt and suggest_chart_spec return an
\* entry for the other
C18_FoldedQueriesShareEntry ==
    \A i \in LearnedRuns : \A query \in CacheQueries :
        Normalized(query) = Normalized(cache_runs[i].user_query)
        => /\ HashQuery(query) = HashQuery(cache_runs[i].user_query)
           /\ SuggestPrompt(patterns, query) # <<>>
           /\ SuggestChartSpec(patterns, query) # <<>>

\* a direct call of ScoringAgent.calculate_final_score has returned
FinalScoreCalled == policy.called = "calculate_final_score"

\* the distance of a score r (in hundredths) from 0.4*h + 0.6*l, in
\* ten-thousandths
DistanceFromWeighted(r, h, l) ==
    IF 100 * r >= 40 * h + 60 * l THEN 100 * r - (40 * h + 60 * l)
    ELSE (40 * h + 60 * l) - 100 * r

\* C19: calculate_final_score(h, l) is 0.4*h + 0.6*l rounded to two
\* decimals (at most half a hundredth away from it, and within [0, 10]),
\* the weights sum to 1.0, the result does not decrease when either
\* argument grows, and it is 0 for (0, 0) and 10 for (10, 10)
C19_FinalScoreIsWeightedMean ==
    FinalScoreCalled =>
        LET h == policy.heuristic_score
            l == policy.llm_score
            r == policy.final_score
        IN /\ 2 * DistanceFromWeighted(r, h, l) <= 100
           /\ heuristic_weight + llm_weight = 100
           /\ r \in 0..1000
           /\ \A h2 \in h..1000 : CalculateFinalScore(h2, l) >= r
           /\ \A l2 \in l..1000 : CalculateFinalScore(h, l2) >= r
           /\ (h = 0 /\ l = 0) => r = 0
           /\ (h = 1000 /\ l = 1000) => r = 1000

\* calculate_final_score(0.02, 0.0) has returned 0.01: 0.008 rounded up
C19_Witness ==
    /\ FinalScoreCalled
    /\ policy.heuristic_score = 2 /\ policy.llm_score = 0
    /\ policy.final_score = 1

\* C20: in every iteration the score of the quality evaluator is within
\* [0, 10], on the provider path and on the fallback path, and so are the
\* combined score recorded for the iteration and the scores stored in the
\* cache
C20_ScoresWithinRange ==
    /\ state.llm_score \in 0..1000
    /\ state.final_score \in 0..1000
    /\ \A i \in 1..Len(scored) : scored[i].final_score \in 0..1000
    /\ \A i \in 1..Len(iteration_history) :
          iteration_history[i].final_score \in 0..1000
    /\ \A i \in 1..Len(cache_runs) :
          /\ cache_runs[i].llm_score \in 0..1000
          /\ cache_runs[i].final_score \in 0..1000
    /\ \A h \in DOMAIN patterns.query_patterns :
          patterns.query_patterns[h].score \in 0..1000

\* C21: after clear_cache, whatever add_run calls came before, get_stats
\* reports 0 runs and 0 patterns of every kind, suggest_prompt and
\* suggest_chart_spec return nothing for every query, and
\* suggest_improvements returns an empty list for every issue list
C21_ClearCacheEmpties ==
    policy.called = "clear_cache" =>
        /\ \A k \in DOMAIN GetStats(cache_runs, patterns) :
              GetStats(cache_runs, patterns)[k] = 0
        /\ \A query \in CacheQueries \cup Queries :
              /\ SuggestPrompt(patterns, query) = <<>>
              /\ SuggestChartSpec(patterns, query) = <<>>
        /\ \A issues \in PolicyIssueLists \cup CacheIssueLists :
              \A fs \in PolicyScores : SuggestImprovements(patterns, issues, fs) = {}

\* clear_cache was called on a cache of two runs with a learned entry and
\* an issue pattern (the file, whose write failed, still holds them)
C21_Witness ==
    /\ policy.called = "clear_cache" /\ ~policy.saved
    /\ cache_file # <<>>
    /\ Len(cache_file[1].runs) = 2
    /\ DOMAIN cache_file[1].patterns = PatternTypes
    /\ cache_file[1].patterns.prompt_patterns # EmptyMap
    /\ cache_file[1].patterns.issue_patterns # EmptyMap

\* C22: when two add_run calls for the same query interleave, the cache
\* they leave is the one that one of the two serial orders leaves: both
\* runs in the run list, each issue counter increased once for each run
\* that has the issue, no solution and no entry lost
C22_InterleavedAddRunsSerialize ==
    (pc = "threads" /\ \A i \in {1, 2} : policy.t[i].at = "done")
    => \E i \in {1, 2} :
          LET first == policy.t[i].run_data
              second == policy.t[3 - i].run_data
          IN /\ cache_runs = <<first, second>>
             /\ patterns = LearnFromRun(LearnFromRun(EmptyPatterns, first), second)

\* C23: when a write of the cache file fails in the add_run at the end of
\* a run, run_optimization returns a final result, that of the run it
\* recorded in memory, and not an error result
C23_WriteFailureKeepsResult ==
    [][(/\ pc = "finish"
        /\ Len(cache_runs') = Len(cache_runs) + 1
        /\ cache_file' # <<[runs |-> cache_runs', patterns |-> patterns']>>)
       => /\ ReturnedFinal'
          /\ ~ReturnedError'
          /\ result'[1].final_score = cache_runs'[Len(cache_runs')].final_score
          /\ result'[1].prompt = cache_runs'[Len(cache_runs')].prompt
          /\ result'[1].chart_spec = cache_runs'[Len(cache_runs')].chart_spec]_vars

\* a run has returned a final result after an add_run whose two file
\* writes failed: the run is in the run list and not in the file
C23_Witness ==
    /\ ReturnedFinal
    /\ cache_runs # <<>>
    /\ cache_file = <<>>
    /\ result[1].final_score = cache_runs[Len(cache_runs)].final_score

\* C24: after any sequence of add_run, clear_cache and reset_patterns
\* calls, when the file writes of the last call succeeded (and before the
\* first call), a LearningCache constructed from the file has the run list
\* and the five pattern maps of the cache in memory
C24_PersistLoadRoundTrip ==
    (pc = "idle" /\ (policy.called = "none" \/ policy.saved))
    => /\ LoadCache(cache_file).runs = cache_runs
       /\ DOMAIN LoadCache(cache_file).patterns = PatternTypes
       /\ LoadCache(cache_file).patterns = patterns

\* an add_run whose writes succeeded, on a cache whose patterns had been
\* reset after an earlier run: two runs, one learned entry
C24_Witness ==
    /\ policy.called = "add_run" /\ policy.saved
    /\ Len(cache_runs) = 2
    /\ ~LearnsQuery(cache_runs[2].final_score) /\ LearnsQuery(cache_runs[1].final_score)
    /\ patterns.query_patterns = EmptyMap
    /\ cache_runs[2].heuristic_issues # {}
    /\ cache_file # <<>> /\ cache_file[1].runs = cache_runs

\* C25: after any sequence of add_run calls, the solutions list of every
\* issue has at most 20 entries, every kept solution is the solution of a
\* recorded run, and a solution that was dropped (a recorded run with the
\* issue and a score of 7.0 or more that is not among the kept ones) never
\* has a strictly higher score than a kept solution
C25_PrunedByScore ==
    \A k \in DOMAIN patterns.issue_patterns :
        LET solutions == patterns.issue_patterns[k].solutions
            offered(v) == Cardinality({i \in 1..Len(cache_runs) :
                              /\ k \in cache_runs[i].heuristic_issues
                              /\ cache_runs[i].final_score >= solution_threshold
                              /\ cache_runs[i].final_score = v})
            kept(v) == Cardinality({j \in 1..Len(solutions) : solutions[j].score = v})
        IN /\ Len(solutions) <= 20
           /\ \A v \in CacheScores :
                 /\ kept(v) <= offered(v)
                 /\ kept(v) < offered(v)
                      => \A j \in 1..Len(solutions) : v <= solutions[j].score

\* twenty-one runs were recorded for an issue, the first at 9.0 and the
\* last at 7.5: twenty solutions are kept, the 9.0 one among them, and the
\* 7.5 one was dropped
C25_Witness ==
    /\ Len(cache_runs) = 21
    /\ cache_runs[1].final_score = 900
    /\ cache_runs[21].final_score = 750
    /\ Len(patterns.issue_patterns["missing_title"].solutions) = 20
    /\ patterns.issue_patterns["missing_title"].solutions[1].score = 900
    /\ \A j \in 1..20 : patterns.issue_patterns["missing_title"].solutions[j].score > 750

\* C26: a cache hit in build_chart leaves the stored data as it was: the
\* cached chart pattern, the solutions and the chart_spec of the recorded
\* runs are not modified by the step that hands the cached chart over
C26_CacheHitLeavesStoredData ==
    [][(pc = "build" /\ state.prompt # <<>> /\ ChartCacheHit(patterns, user_query))
         => (patterns' = patterns /\ cache_runs' = cache_runs)]_vars

\* C27: the final_score of a final result is the maximum combined score of
\* the iterations scored in the run, and the result is that of the
\* earliest iteration with this score: its iteration number, and the
\* chart_spec and component scores recorded for that iteration
C27_ReturnsEarliestBest ==
    (ReturnedFinal /\ scored # <<>>)
    => LET best == CHOOSE i \in 1..Len(scored) :
                      /\ \A j \in 1..Len(scored) :
                            scored[j].final_score <= scored[i].final_score
                      /\ \A j \in 1..(i - 1) :
                            scored[j].final_score < scored[i].final_score
       IN /\ result[1].final_score = scored[best].final_score
          /\ result[1].iteration = scored[best].iteration
          /\ \A j \in 1..Len(iteration_history) :
                iteration_history[j].iteration = scored[best].iteration
                => /\ result[1].chart_spec = iteration_history[j].chart_spec
                   /\ result[1].scores.heuristic = iteration_history[j].heuristic_score
                   /\ result[1].scores.llm = iteration_history[j].llm_score

\* C28: the prompt of a record appended to iteration_history is the
\* prompt from which the record's chart_spec was built, i.e. the prompt of
\* the state before the step that appends the record (the prompt changes
\* only in the rewriter), and not the prompt rewritten for the next
\* iteration
C28_RecordPairsPromptAndChart ==
    [][Len(iteration_history') = Len(iteration_history) + 1
         => /\ iteration_history'[Len(iteration_history')].chart_spec = state.chart_spec
            /\ iteration_history'[Len(iteration_history')].prompt = state.prompt]_vars

\* C29: in every cache state reached from the empty cache by add_run,
\* clear_cache and reset_patterns calls, query_patterns, prompt_patterns
\* and chart_patterns have the same fingerprints as keys
C29_SameFingerprints ==
    /\ DOMAIN patterns.query_patterns = DOMAIN patterns.prompt_patterns
    /\ DOMAIN patterns.prompt_patterns = DOMAIN patterns.chart_patterns

\* after a reset_patterns that followed a learned run, a run was learned:
\* the maps have the one fingerprint of the later run
C29_Witness ==
    /\ policy.called = "add_run"
    /\ Len(cache_runs) = 2
    /\ LearnsQuery(cache_runs[1].final_score) /\ LearnsQuery(cache_runs[2].final_score)
    /\ HashQuery(cache_runs[1].user_query) # HashQuery(cache_runs[2].user_query)
    /\ DOMAIN patterns.chart_patterns = {HashQuery(cache_runs[2].user_query)}


\* C30: a run that ends with an error result or a clarification result
\* never calls add_run, so the cache's run list and pattern maps are
\* after it what they were before it (what the file written before the
\* run holds); a run that returns a final result calls add_run at most
\* once, in the step after the last iteration that returns the result, and
\* only if the returned final score is > 0
C30_OnlyScoredFinalRunsChangeCache ==
    [][pc # "idle"
         => /\ Len(cache_runs') # Len(cache_runs)
                 => /\ pc = "finish"
                    /\ Len(cache_runs') = Len(cache_runs) + 1
                    /\ ReturnedFinal'
                    /\ result'[1].final_score > 0
            /\ (ReturnedError' \/ ReturnedClarification')
                 => /\ cache_runs' = LoadCache(cache_file').runs
                    /\ patterns' = LoadCache(cache_file').patterns]_vars

====
